---- MODULE Spec2Model ----
(***************************************************************************)
(* Model of the DIDComm mediator's message dispatch engine:                *)
(*   app/routers/mediator.py  - the POST handler `endpoint`                *)
(*   app/core/redis.py        - AsyncRedisChannel, RedisPush, RedisPull,   *)
(*                              choice_server_address                     *)
(*   app/core/firebase.py     - FirebaseMessages                           *)
(*                                                                         *)
(* A string address 'redis://host/name' is the sequence of its '/'         *)
(* separated segments <<"redis:", "", host, name>>; None and '' are <<>>.  *)
(* Each handler step is one stretch of code between two awaits.  Time is   *)
(* kept as countdowns in seconds: remaining = expire_at - utcnow() of a     *)
(* push, timer = what is left of the timeout of its asyncio.wait_for.       *)
(* Broker, cache and database round trips are not measured by the clock    *)
(* (they complete within the current second); a timed wait is the only     *)
(* place where a task lets time pass.                                      *)
(***************************************************************************)
EXTENDS Integers, Sequences, FiniteSets, TLC

\* ------------------------------------------------------------------ bounds
MaxPosts == 3
MaxFaults == 1
MaxCloses == 1
MaxAcks == 6

\* ------------------------------------------------------- program constants
Ttl == 5
PUSH_MSG_TYPE == "https://didcomm.org/indilynx/1.0/push"
ACK_MSG_TYPE == "https://didcomm.org/indilynx/1.0/ack"
EXPECTED_CONTENT_TYPES ==
    {"application/ssi-agent-wire", "application/json",
     "application/didcomm-envelope-enc", "application/didcomm-encrypted+json"}
REDIS_SERVERS == <<"redis1", "redis2">>
\* RedisPull.__init__ 323: ExpiringDict(max_len=5, ...)
max_len == 5

\* ------------------------------------------------------------ input domains
Handlers == {"h1", "h2"}
Uids == {"E0", "E1"}
ContentTypes == {"application/ssi-agent-wire", "application/invalid-type"}
\* the n-th POST of a behaviour carries the body Bodies[n]
Bodies == <<"B1", "B2", "B3", "B4">>
None == <<>>
Addr(host, name) == <<"redis:", "", host, name>>
PubSubAddresses == {Addr("redis1", "X"), Addr("unreachable", "X"), None}
FcmDeviceIds == {None, Addr("redis1", "F")}
Configured == {REDIS_SERVERS[i] : i \in 1..Len(REDIS_SERVERS)}
\* two Requests of one RedisPull may be acknowledged at a time
AckSlots == {"a1", "a2"}
\* the n-th Request carries a reverse address of its own on redis1 or the one
\* address on redis2
ReverseNames == <<"R1", "R2", "R3", "R4", "R5", "R6", "R7", "R8">>
ReverseAddresses(n) == {Addr("redis1", ReverseNames[n]), Addr("redis2", "R0")}

VARIABLES
    alive,            \* broker hosts that accept connections and answer PING
    endpoints,        \* SQL table endpoints (joined with agents.fcm_device_id)
    endpoints_cache,  \* memcached: uid -> pub/sub address
    req,              \* per handler slot: the POST being served
    chan,             \* per handler slot: the AsyncRedisChannel of its RedisPush
    queue,            \* per subscriber: frames delivered by the broker, unread
    listener,         \* the camped RedisPull.Listener and its pending Request
    hist              \* history: what was published, acknowledged, yielded

vars == <<alive, endpoints, endpoints_cache, req, chan, queue, listener, hist>>

Subscribers == Handlers \cup {"L"}

\* ------------------------------------------------------------ pure helpers
Last(s) == s[Len(s)]

\* AsyncRedisChannel.__init__: name = address.split('/')[-1]
ChannelName(address) == Last(address)

\* AsyncRedisChannel.__init__: address.replace('/' + name, '') drops every
\* segment that equals the name (after the first one, which has no '/' before it)
BrokerAddress(address) ==
    LET name == ChannelName(address)
        keep(s) == s # name
    IN  <<address[1]>> \o SelectSeq(Tail(address), keep)

\* the host aioredis connects to: 'redis://host'
HostOf(broker_address) == IF Len(broker_address) >= 3 THEN broker_address[3] ELSE ""

Topic(address) == <<HostOf(BrokerAddress(address)), ChannelName(address)>>

NoTopic == <<>>

\* app.utils.change_redis_server(old, server): '<server>/<old name>'
change_redis_server(old_pub_sub, redis_server) == redis_server \o <<Last(old_pub_sub)>>

\* device_id.startswith('redis://')
IsRedisUrl(s) == Len(s) >= 2 /\ s[1] = "redis:" /\ s[2] = ""

\* mediator.py 87-89: the chunks of request.stream() joined; bytes are the
\* sequence of their parts
Payload(body) == <<body>>

\* json.loads(payload.decode()): the decoded object of the bytes
JsonLoads(payload) == [json |-> payload]

\* the packed envelope that only the holder of key `recipient` opens
Pack(content, recipient) == <<"packed-for", recipient>> \o content

\* the forward message {@type: FORWARD, to: to, msg: msg}
ForwardMessage(to, msg) == <<"forward-to", to>> \o msg

\* app.core.forward.forward_wired(payload, their_vk, routing_keys): for each
\* routing key in order, a forward message to the previous recipient packed
\* for that key
RECURSIVE forward_wired(_, _, _)
forward_wired(payload, their_vk, routing_keys) ==
    IF routing_keys = <<>> THEN payload
    ELSE forward_wired(Pack(ForwardMessage(their_vk, payload), Head(routing_keys)),
                       Head(routing_keys), Tail(routing_keys))

PushRequest(id, reverse_address, expire_at, message) ==
    [kind |-> "data",
     body |-> [type |-> PUSH_MSG_TYPE, id |-> id, reverse_channel |-> reverse_address,
               expire_at |-> expire_at, message |-> message]]

\* an ACK that carries no request's id
Ack_Unmatched(id) ==
    [kind |-> "data", body |-> [type |-> ACK_MSG_TYPE, id |-> 0, status |-> TRUE]]

\* Request.ack 310-314: the data written to the reverse channel
Ack(id) ==
    [kind |-> "data", body |-> [type |-> ACK_MSG_TYPE, id |-> id, status |-> TRUE]]

NoFrame == [kind |-> "none"]

\* AsyncRedisChannel.close 139: the close sentinel
CloseFrame == [kind |-> "close"]

\* ------------------------------------------------------------------- state
\* a row of endpoints with the agent's fcm_device_id and the endpoint's
\* routing keys (Repo.load_endpoint, Repo.list_routing_key); "" is NULL
Columns == {"verkey", "agent_id", "redis_pub_sub", "fcm_device_id"}

Row(verkey, redis_pub_sub, fcm_device_id, routing_keys) ==
    [exists |-> TRUE, verkey |-> verkey, agent_id |-> "",
     redis_pub_sub |-> redis_pub_sub, fcm_device_id |-> fcm_device_id,
     routing_keys |-> routing_keys]

NoRow == [Row("", None, None, <<>>) EXCEPT !.exists = FALSE]

\* AsyncRedisChannel.__init__ 64-66: no connection, no subscription.  closed is
\* aio_redis.closed; last is the outcome of the last call on the object, used
\* the connection its command ran on, torn whether it was ever terminated
NoChannel ==
    [aio_redis |-> FALSE, channel |-> NoTopic, closed |-> FALSE,
     last |-> "none", used |-> "none", torn |-> FALSE]

\* GlobalRedisChannelsCache.get(): the ExpiringDict of the process, handed to
\* every RedisPush (mediator.py 79); nothing puts an entry into it
GlobalRedisChannelsCache == {}

\* an entry of a channel cache: the (forward, reverse) channel objects stored
\* under an address, each named after the RedisPush that built it
Pair(address, forward, reverse) ==
    [address |-> address, forward |-> forward, reverse |-> reverse]

NoPair == Pair(None, "", "")

IdleReq ==
    [pc |-> "idle", uid |-> "E0", content_type |-> "", body |-> "",
     fields |-> NoRow, message |-> JsonLoads(Payload("")), ignore_cache |-> FALSE,
     address |-> None, channels_cache |-> {}, pair |-> NoPair, request |-> NoFrame, remaining |-> 0, delta |-> 0,
     timer |-> 0,
     success |-> FALSE, raised |-> FALSE, status |-> 0,
     \* history of this request, read by the properties only
     response |-> NoFrame, read_left |-> 0, skipped |-> 0, delivered |-> 0,
     camped |-> FALSE, fault |-> FALSE, effects |-> {}, redis_server |-> None,
     old_pub_sub |-> None, resolved |-> <<>>, seen_rebinds |-> 0,
     fcm_reader |-> FALSE, hit |-> None, sentinel |-> FALSE, stale |-> {}]

\* a Request that has not been handed out
NoAck == [pc |-> "new", id |-> 0, address |-> None, channel |-> 0, evicted |-> FALSE,
          failed |-> FALSE, left |-> FALSE, result |-> "none"]

\* reverse_channels is the ExpiringDict of the RedisPull, oldest entry first
IdleListener ==
    [pc |-> "off", address |-> None, aio_redis |-> FALSE, channel |-> NoTopic,
     request |-> NoFrame, reverse_channels |-> <<>>,
     acks |-> [a \in AckSlots |-> NoAck], requests |-> 0]

\* no request yet, no listener yet, nothing cached
InitIdle ==
    /\ endpoints_cache = [u \in Uids |-> None]
    /\ req = [h \in Handlers |-> IdleReq]
    /\ chan = [h \in Handlers |-> NoChannel]
    /\ queue = [s \in Subscribers |-> <<>>]
    /\ listener = IdleListener
    /\ hist = [posts |-> 0, next_id |-> 1, published |-> <<>>, acked |-> {},
               yielded |-> <<>>, camped_all |-> TRUE, rebinds |-> 0, rebound |-> "",
               faults |-> 0, closed_after |-> -1,
               ensured |-> <<>>, selected |-> <<>>, closes |-> 0]

\* endpoint E1 is registered, E0 is not
InitWith(brokers, addresses, devices, keysets) ==
    /\ alive \in brokers
    /\ \E a \in addresses, f \in devices, keys \in keysets :
          endpoints = [u \in Uids |-> IF u = "E1" THEN Row("V", a, f, keys) ELSE NoRow]
    /\ InitIdle

\* a configuration of three brokers, any of them up, for calls of
\* choice_server_address on their own
SelectServers == <<"redis1", "redis2", "redis3">>

InitSelect ==
    /\ alive \in SUBSET {SelectServers[i] : i \in 1..Len(SelectServers)}
    /\ endpoints = [u \in Uids |-> NoRow]
    /\ InitIdle

\* an empty table of endpoints
InitCrud ==
    /\ alive = Configured
    /\ endpoints = [u \in Uids |-> NoRow]
    /\ InitIdle


\* endpoints without routing keys
Init == InitWith(SUBSET Configured, PubSubAddresses, FcmDeviceIds, {<<>>})

\* every configured broker up, an endpoint without fcm_device_id
InitLive == InitWith({Configured}, PubSubAddresses, {None}, {<<>>})

\* an endpoint on a configured broker with zero, one or two routing keys
\* (test_endpoints.py 226-233)
RoutingKeys == {<<>>, <<"K1">>, <<"K1", "K2">>, <<"K2", "K1">>}

InitFwd == InitWith({Configured, {"redis1"}}, {Addr("redis1", "X")}, {None}, RoutingKeys)

\* ------------------------------------------------------------ broker fabric
\* a transport error (connection reset, RedisError) may hit a broker command
Faults == IF hist.faults < MaxFaults THEN {FALSE, TRUE} ELSE {FALSE}

Faulted(fault) == [hist EXCEPT !.faults = @ + (IF fault THEN 1 ELSE 0)]

\* the topic the broker delivers to s: the subscription of a connection that
\* is still open
SubscriptionOf(s) ==
    IF s = "L" THEN listener.channel
    ELSE IF chan[s].closed THEN NoTopic ELSE chan[s].channel

\* PUBLISH on a broker: the frame reaches every subscription of the topic
Delivered(topic) == {s \in Subscribers : SubscriptionOf(s) = topic}

Publish(q, topic, frame) ==
    [s \in Subscribers |-> IF s \in Delivered(topic) THEN Append(q[s], frame) ELSE q[s]]

\* aioredis.create_redis(address, timeout=3) succeeds on a live host only
CanConnect(address) == HostOf(BrokerAddress(address)) \in alive

\* the probe answers True without a connection
check_address_Unprobed(addr) == TRUE

\* AsyncRedisChannel.check_address: connect and PING, any exception is False
check_address(addr) == HostOf(addr) \in alive

\* ---------------------------------------------------- choice_server_address
Perms(s) ==
    {p \in [1..Len(s) -> {s[i] : i \in 1..Len(s)}] :
        {p[i] : i \in 1..Len(s)} = {s[i] : i \in 1..Len(s)}}

\* unwanted.replace('redis://', ''): the text after the scheme
StripScheme(unwanted) ==
    IF IsRedisUrl(unwanted) THEN SubSeq(unwanted, 3, Len(unwanted)) ELSE unwanted

\* the unwanted address is left where the shuffle put it
ShiftToTail_Unshifted(items, unwanted) == items

\* items = excluded + [unwanted] when unwanted is one of the configured hosts
ShiftToTail(items, unwanted) ==
    LET u == StripScheme(unwanted)
        others(i) == <<i>> # u
    IN  IF unwanted # None /\ \E k \in 1..Len(items) : <<items[k]>> = u
        THEN SelectSeq(items, others) \o u
        ELSE items

\* the first item of the list is returned without a probe
choice_server_address_Unprobed(unwanted, shuffled) ==
    <<"redis:", "", ShiftToTail(shuffled, unwanted)[1]>>

\* the first item of the (shuffled, shifted) list whose probe passes;
\* None stands for raise NoOneReachableRedisServer
choice_server_address(unwanted, shuffled) ==
    LET items == ShiftToTail(shuffled, unwanted)
        ok == {k \in 1..Len(items) : check_address(<<"redis:", "", items[k]>>)}
    IN  IF ok = {} THEN None
        ELSE <<"redis:", "", items[CHOOSE k \in ok : \A j \in ok : k <= j]>>

\* the addresses a caller may name as unwanted: none, the address of a
\* configured broker with and without its scheme, the address of a broker that
\* is not configured, the address of a channel on a configured broker
Unwanted ==
    {None, Addr("redis1", "X"), <<"redis:", "", "other">>}
    \cup {<<"redis:", "", SelectServers[i]>> : i \in 1..Len(SelectServers)}
    \cup {<<SelectServers[i]>> : i \in 1..Len(SelectServers)}

\* a call of choice_server_address(unwanted) with the outcome of its shuffle
Select ==
    \E unwanted \in Unwanted, shuffled \in Perms(SelectServers) :
        /\ hist' = [hist EXCEPT !.selected =
                       <<unwanted, shuffled, choice_server_address(unwanted, shuffled)>>]
        /\ UNCHANGED <<alive, endpoints, endpoints_cache, req, chan, queue, listener>>

\* ------------------------------------------------- the POST handler, endpoint
\* the final raise left out: a failed push without fcm_device_id ends 202
Fallback_NoRaise(fields, success) ==
    IF ~success /\ fields.fcm_device_id # None THEN 500 ELSE 202

\* 410 for every failed push, the FCM fallback never entered
Fallback_NoFcm(fields, success) == IF success THEN 202 ELSE 410

\* mediator.py 114-138, the code after push (no await before the response):
\* FirebaseMessages defines no __init__, so FirebaseMessages(db=db) raises
\* TypeError outside any try and the request ends as a server error
Fallback(fields, success) ==
    IF success THEN 202
    ELSE IF fields.fcm_device_id # None THEN 500
    ELSE 410

\* the response is sent and the handler's RedisPush, which holds the only
\* reference to its channel, is released: AsyncRedisChannel.__del__ terminates
FinishWith(h, r, status, q) ==
    /\ req' = [req EXCEPT ![h] =
                 [r EXCEPT !.pc = "done", !.status = status,
                           !.fcm_reader = /\ r.fields.fcm_device_id # None
                                          /\ Delivered(Topic(r.fields.fcm_device_id)) # {}]]
    /\ chan' = [chan EXCEPT ![h] = NoChannel]
    /\ queue' = [q EXCEPT ![h] = <<>>]

Finish(h, r, status) == FinishWith(h, r, status, queue)

\* the comparison of the ids at redis.py 218 left out
OnResponse_AnyAck(request, response) ==
    IF response.type = ACK_MSG_TYPE
    THEN (IF response.status = TRUE THEN "true" ELSE "false")
    ELSE "again"

\* any frame but the own ACK ends the wait
OnResponse_StopOnOther(request, response) ==
    IF response.type = ACK_MSG_TYPE /\ response.id = request.id
    THEN (IF response.status = TRUE THEN "true" ELSE "false")
    ELSE "false"
\* RedisPush.__push_internal 218-221 on a data frame read from the reverse channel
OnResponse(request, response) ==
    IF response.type = ACK_MSG_TYPE /\ response.id = request.id
    THEN (IF response.status = TRUE THEN "true" ELSE "false")
    ELSE "again"

\* the content type is not looked at
Accepted_Any(content_type) == TRUE

\* mediator.py 75: content_type not in EXPECTED_CONTENT_TYPES raises 415
Accepted(content_type) == content_type \in EXPECTED_CONTENT_TYPES

\* lines 74-76, then the construction of Repo and RedisPush
Post(h) ==
    /\ req[h].pc \in {"idle", "done"}
    /\ hist.posts < MaxPosts
    /\ \E uid \in Uids, ct \in ContentTypes :
          LET r == [IdleReq EXCEPT !.uid = uid, !.content_type = ct,
                                   !.body = Bodies[hist.posts + 1]]
          IN  req' = [req EXCEPT ![h] =
                        IF ~Accepted(ct)
                        THEN [r EXCEPT !.pc = "done", !.status = 415]
                        ELSE [r EXCEPT !.pc = "load"]]
    /\ hist' = [hist EXCEPT !.posts = @ + 1]
    /\ UNCHANGED <<alive, endpoints, endpoints_cache, chan, queue, listener>>

\* every uid is taken for a registered endpoint
Known_Any(row) == TRUE

\* mediator.py 90: if endpoint_fields
Known(row) == row.exists

\* the body is never wrapped
Message_NeverForwarded(payload, row) == JsonLoads(payload)

\* mediator.py 91-96: the forward envelope when there are routing keys
Message(payload, row) ==
    IF row.routing_keys # <<>>
    THEN JsonLoads(forward_wired(payload, row.verkey, row.routing_keys))
    ELSE JsonLoads(payload)

\* lines 80-99: load the row and the routing keys, read the body, build the
\* message, enter push (expire_at = now + ttl)
LoadEndpoint(h) ==
    LET r == req[h]
        row == endpoints[r.uid]
        e == r.effects \cup {"db_read"}
    IN  /\ r.pc = "load"
        /\ IF ~Known(row)
           THEN Finish(h, [r EXCEPT !.effects = e], 404)
           ELSE /\ req' = [req EXCEPT ![h] =
                             [r EXCEPT !.pc = "cache_get", !.fields = row,
                                       !.message = Message(Payload(r.body), row),
                                       !.remaining = Ttl,
                                       !.ignore_cache = FALSE, !.effects = e]]
                /\ UNCHANGED <<chan, queue>>
        /\ UNCHANGED <<alive, endpoints, endpoints_cache, listener, hist>>

\* __push_internal 196-227 when __get_channel gave (None, None): the next cache
\* mode, or False after the second one
NoChannelFor(h, r) ==
    IF ~r.ignore_cache
    THEN /\ req' = [req EXCEPT ![h] = [r EXCEPT !.pc = "cache_get", !.ignore_cache = TRUE]]
         /\ UNCHANGED <<chan, queue>>
    ELSE Finish(h, r, Fallback(r.fields, FALSE))

\* __get_session_channel_address 251-255: the memcached get.  With an entry
\* and ignore_cache false neither branch is taken and the function ends
\* without a return statement: it returns None
CacheGet(h) ==
    LET r == [req[h] EXCEPT !.effects = @ \cup {"cache_read"},
                            !.seen_rebinds = hist.rebinds, !.resolved = <<>>,
                            !.hit = None]
        addr == endpoints_cache[r.uid]
    IN  /\ req[h].pc = "cache_get"
        /\ IF addr # None /\ ~r.ignore_cache
           THEN NoChannelFor(h, [r EXCEPT !.resolved = <<None>>, !.hit = addr])
           ELSE /\ req' = [req EXCEPT ![h] =
                             [r EXCEPT !.pc = IF addr # None THEN "cache_delete"
                                              ELSE "load_db"]]
                /\ UNCHANGED <<chan, queue>>
        /\ UNCHANGED <<alive, endpoints, endpoints_cache, listener, hist>>

\* line 254
CacheDelete(h) ==
    LET r == req[h]
    IN  /\ r.pc = "cache_delete"
        /\ endpoints_cache' = [endpoints_cache EXCEPT ![r.uid] = None]
        /\ req' = [req EXCEPT ![h] =
                     [r EXCEPT !.pc = "load_db", !.effects = @ \cup {"cache_write"}]]
        /\ UNCHANGED <<alive, endpoints, chan, queue, listener, hist>>

\* lines 256-263: load_endpoint from the database
LoadDb(h) ==
    LET r == [req[h] EXCEPT !.effects = @ \cup {"db_read"}]
        row == endpoints[r.uid]
    IN  /\ req[h].pc = "load_db"
        /\ IF row.exists /\ row.redis_pub_sub # None
           THEN /\ req' = [req EXCEPT ![h] =
                             [r EXCEPT !.pc = "cache_set", !.address = row.redis_pub_sub]]
                /\ UNCHANGED <<chan, queue>>
           ELSE NoChannelFor(h, [r EXCEPT !.resolved = <<None>>])
        /\ UNCHANGED <<alive, endpoints, endpoints_cache, listener, hist>>

\* the pair that handler g obtained is out of use: its channel was terminated
\* by a close sentinel (read 117-118), or a transport error was raised on it
\* (channel 104-106 terminates a reading channel, __clean_on_disconnect 265-273
\* evicts the entry of its address)
TornDown(g) ==
    /\ req[g].pair # NoPair
    /\ req[g].raised \/ req[g].response = CloseFrame

\* one cache for the whole process: the entries of every RedisPush are seen
ChannelsCacheOf_Process(channels_cache, own) ==
    UNION {req[g].channels_cache : g \in Handlers}

\* RedisPush.__init__ 182: channels_cache or ExpiringDict(...); an empty
\* dict is falsy, so the cache handed in is taken only when it has an entry
ChannelsCacheOf(channels_cache, own) ==
    IF channels_cache # {} THEN channels_cache ELSE own

\* __get_channel 231-243 with REVERSE_FORWARD_CH_EQUAL: the pair cached under
\* the address, or a new channel built by this RedisPush as forward and reverse
Lookup(cache, address, h) ==
    LET cached == {e \in cache : e.address = address}
    IN  IF cached = {} THEN Pair(address, h, h) ELSE CHOOSE e \in cached : TRUE

\* datetime.utcnow() called on the datetime expire_at (a classmethod): the
\* current time.  Times in a request are seconds after the call of push; the
\* request is built within that second
utcnow(expire_at) == 0

\* line 260, the return of the address, __get_channel 231-243 and the request
\* built at 202-208 with reverse_channel.address and expire_at.utcnow()
CacheSet(h) ==
    LET r == req[h]
        cache == ChannelsCacheOf(GlobalRedisChannelsCache, r.channels_cache)
        pair == Lookup(cache, r.address, h)
    IN  /\ r.pc = "cache_set"
        /\ endpoints_cache' = [endpoints_cache EXCEPT ![r.uid] = r.address]
        /\ req' = [req EXCEPT ![h] =
                     [r EXCEPT !.pc = "write", !.resolved = <<r.address>>,
                               !.effects = @ \cup {"cache_write", "channel"},
                               !.channels_cache = cache \cup {pair},
                               !.pair = pair,
                               !.stale = {req[g].pair : g \in {g \in Handlers : TornDown(g)}},
                               !.request = PushRequest(hist.next_id, pair.address,
                                                       utcnow(r.remaining),
                                                       r.message)]]
        /\ hist' = [hist EXCEPT !.next_id = @ + 1]
        /\ UNCHANGED <<alive, endpoints, chan, queue, listener>>

\* a publish that reached nobody is followed by the next cache mode
NotDelivered_NextMode(h, r) == NoChannelFor(h, r)

\* __push_internal 225-226: write gave False, return False
NotDelivered(h, r) == Finish(h, r, Fallback(r.fields, FALSE))

\* every read waits for the whole ttl
Deadline_Ttl(r) == Ttl

\* __push_internal 214: delta = expire_at - utcnow(), the timeout of the read
Deadline(r) == r.remaining

\* __push_internal 213-216, the head of the wait loop: another read with the
\* remaining time, or False once expire_at has passed
WaitLoop(h, r, ch, q) ==
    IF r.remaining >= 0
    THEN /\ req' = [req EXCEPT ![h] =
                      [r EXCEPT !.delta = Deadline(r), !.timer = Deadline(r),
                                !.pc = IF ch.channel = NoTopic THEN "subscribe" ELSE "wait"]]
         /\ chan' = [chan EXCEPT ![h] = ch]
         /\ queue' = q
    ELSE FinishWith(h, r, Fallback(r.fields, FALSE), q)

\* AsyncRedisChannel.write 125-135 under __clean_on_disconnect: connect, publish
Write(h) ==
    LET r == req[h]
        topic == Topic(r.address)
        n == Cardinality(Delivered(topic))
    IN  /\ r.pc = "write"
        /\ \E fault \in Faults :
             IF fault \/ ~CanConnect(r.address)
             THEN /\ req' = [req EXCEPT ![h] =
                               [r EXCEPT !.pc = "clean", !.raised = TRUE,
                                         !.fault = r.fault \/ fault]]
                  /\ chan' = [chan EXCEPT ![h].aio_redis = CanConnect(r.address)]
                  /\ hist' = Faulted(fault)
                  /\ UNCHANGED queue
             ELSE LET r2 == [r EXCEPT !.delivered = n, !.camped = "L" \in Delivered(topic),
                                      !.effects = @ \cup {"publish"}]
                  IN  /\ hist' = [hist EXCEPT !.published =
                                    Append(@, <<r.request.body.id, r.message>>),
                                                  !.camped_all = @ /\ r2.camped]
                      /\ IF n > 0
                         THEN WaitLoop(h, r2, [chan[h] EXCEPT !.aio_redis = TRUE],
                                       Publish(queue, topic, r.request))
                         ELSE NotDelivered(h, r2)
        /\ UNCHANGED <<alive, endpoints, endpoints_cache, listener>>

\* the failed channel is left as it was
OnReadError_Open(ch) == ch

\* AsyncRedisChannel.channel 104-106: except RedisConnectionError, await
\* __terminate() (165-170: close the connection, drop channel and connection),
\* then raise
OnReadError(ch) == NoChannel

\* AsyncRedisChannel.channel 93-106: the lazy SUBSCRIBE of the first read; on
\* an error the channel terminates itself before the error propagates
Subscribe(h) ==
    LET r == req[h]
    IN  /\ r.pc = "subscribe"
        /\ \E fault \in Faults :
             IF fault \/ ~CanConnect(r.address)
             THEN /\ req' = [req EXCEPT ![h] =
                               [r EXCEPT !.pc = "clean", !.raised = TRUE,
                                         !.fault = r.fault \/ fault]]
                  /\ chan' = [chan EXCEPT ![h] = OnReadError(@)]
                  /\ hist' = Faulted(fault)
             ELSE /\ UNCHANGED hist
                  /\ req' = [req EXCEPT ![h] =
                               [r EXCEPT !.pc = "wait", !.timer = r.delta]]
                  /\ chan' = [chan EXCEPT ![h] =
                                [NoChannel EXCEPT !.aio_redis = TRUE,
                                                  !.channel = Topic(r.address)]]
        /\ UNCHANGED <<alive, endpoints, endpoints_cache, queue, listener>>

\* AsyncRedisChannel.read 108-123 gets a frame before the timeout, then
\* __push_internal 217-224
Recv(h) ==
    LET r == req[h]
        packet == Head(queue[h])
        r2 == [r EXCEPT !.response = packet, !.read_left = r.remaining]
    IN  /\ r.pc = "wait"
        /\ queue[h] # <<>>
        /\ r.timer > 0
        /\ IF packet.kind = "close"
           THEN Finish(h, r2, Fallback(r.fields, FALSE))
           ELSE LET out == OnResponse(r.request.body, packet.body)
                IN  IF out = "again"
                    THEN WaitLoop(h, [r2 EXCEPT !.skipped = 1], chan[h],
                                  [queue EXCEPT ![h] = Tail(@)])
                    ELSE Finish(h, [r2 EXCEPT !.success = (out = "true")],
                                Fallback(r.fields, out = "true"))
        /\ UNCHANGED <<alive, endpoints, endpoints_cache, listener, hist>>

\* read 119-120 and push 192-193: ReadWriteTimeoutError becomes False
Timeout(h) ==
    LET r == req[h]
    IN  /\ r.pc = "wait"
        /\ r.timer <= 0
        /\ Finish(h, r, Fallback(r.fields, FALSE))
        /\ UNCHANGED <<alive, endpoints, endpoints_cache, listener, hist>>

\* __async_reader 158-163: a transport error while waiting for a frame
ReadError(h) ==
    LET r == req[h]
    IN  /\ r.pc = "wait"
        /\ TRUE \in Faults
        /\ req' = [req EXCEPT ![h] = [r EXCEPT !.pc = "clean", !.raised = TRUE,
                                               !.fault = TRUE]]
        /\ chan' = [chan EXCEPT ![h] = OnReadError(@)]
        /\ queue' = [queue EXCEPT ![h] = <<>>]
        /\ hist' = Faulted(TRUE)
        /\ UNCHANGED <<alive, endpoints, endpoints_cache, listener>>

\* the entry of the address stays in the channel cache
Evict_Nothing(cache, address) == cache

\* __clean_on_disconnect 271-272: del self.__channels_cache[channel.address]
Evict(cache, address) == {e \in cache : e.address # address}

\* __clean_on_disconnect 269-273, then mediator.py 101-103: success = False
Clean(h) ==
    LET r == req[h]
    IN  /\ r.pc = "clean"
        /\ endpoints_cache' = [endpoints_cache EXCEPT ![r.uid] = None]
        /\ req' = [req EXCEPT ![h] =
                     [r EXCEPT !.pc = "rotate", !.effects = @ \cup {"cache_write"},
                               !.channels_cache = Evict(@, r.pair.address)]]
        /\ UNCHANGED <<alive, endpoints, chan, queue, listener, hist>>

\* mediator.py 106: the handler passes no unwanted address
SelectServer(current, shuffled) == choice_server_address(None, shuffled)

\* mediator.py 105-113: select a broker and compute the new address; every
\* exception (no broker reachable, no address to rewrite) is muted
Rotate(h) ==
    LET r == req[h]
        old == r.fields.redis_pub_sub
    IN  /\ r.pc = "rotate"
        /\ \E shuffled \in Perms(REDIS_SERVERS) :
             LET server == SelectServer(old, shuffled)
                 r2 == [r EXCEPT !.effects = @ \cup {"probe"}]
             IN  IF server = None \/ old = None
                 THEN Finish(h, r2, Fallback(r.fields, FALSE))
                 ELSE /\ req' = [req EXCEPT ![h] =
                                   [r2 EXCEPT !.pc = "rebind", !.redis_server = server,
                                              !.old_pub_sub = old,
                                              !.fields.redis_pub_sub =
                                                  change_redis_server(old, server)]]
                      /\ UNCHANGED <<chan, queue>>
        /\ UNCHANGED <<alive, endpoints, endpoints_cache, listener, hist>>

\* Repo.ensure_endpoint_exists(**fields): the row is written with the given
\* fields and the cached address of the uid is invalidated
\* the columns that are not given are reset to NULL
ensure_endpoint_exists_Overwrite(table, uid, fields) ==
    [table EXCEPT ![uid] =
        [c \in DOMAIN NoRow |->
            IF c = "exists" THEN TRUE
            ELSE IF c \in DOMAIN fields THEN fields[c]
            ELSE NoRow[c]]]

\* app.db.crud.ensure_endpoint_exists(db, uid, redis_pub_sub=None,
\* agent_id=None, verkey=None): insert the row of a new uid, update the given
\* columns of an existing one
ensure_endpoint_exists(table, uid, fields) ==
    [table EXCEPT ![uid] =
        [c \in DOMAIN NoRow |->
            IF c = "exists" THEN TRUE
            ELSE IF c \in DOMAIN fields THEN fields[c]
            ELSE table[uid][c]]]

\* the keyword arguments of ensure_endpoint_exists(**endpoint_fields)
Given(fields, columns) == [c \in columns |-> fields[c]]

\* mediator.py 110, then the fallback decision
Rebind(h) ==
    LET r == req[h]
    IN  /\ r.pc = "rebind"
        /\ endpoints' = ensure_endpoint_exists(endpoints, r.uid, Given(r.fields, Columns))
        /\ endpoints_cache' = [endpoints_cache EXCEPT ![r.uid] = None]
        /\ hist' = [hist EXCEPT !.rebinds = @ + 1, !.rebound = HostOf(r.redis_server)]
        /\ Finish(h, [r EXCEPT !.effects = @ \cup {"db_write", "cache_write"}],
                  Fallback(r.fields, FALSE))
        /\ UNCHANGED <<alive, listener>>

\* mediator.py 110-113 when the write to the database fails: the exception is
\* caught by 'except Exception' and muted, nothing was written, and the handler
\* goes on to the fallback decision
RebindFails(h) ==
    LET r == req[h]
    IN  /\ r.pc = "rebind"
        /\ Finish(h, r, Fallback(r.fields, FALSE))
        /\ UNCHANGED <<alive, endpoints, endpoints_cache, listener, hist>>

\* a caller outside the handler (onboarding, administration, test_crud.py
\* 46-63) ensures an endpoint with some of the keyword arguments
EndpointColumns == {"verkey", "agent_id", "redis_pub_sub"}

Ensure ==
    \E uid \in Uids, columns \in SUBSET EndpointColumns,
       verkey \in {"V", "W"}, agent_id \in {"A", "B"},
       redis_pub_sub \in {Addr("redis1", "X"), Addr("redis2", "X")} :
        LET fields == [c \in columns |->
                         CASE c = "verkey" -> verkey
                           [] c = "agent_id" -> agent_id
                           [] OTHER -> redis_pub_sub]
        IN  /\ endpoints' = ensure_endpoint_exists(endpoints, uid, fields)
            /\ endpoints_cache' = [endpoints_cache EXCEPT ![uid] = None]
            /\ hist' = [hist EXCEPT !.ensured = <<uid, fields>>]
            /\ UNCHANGED <<alive, req, chan, queue, listener>>

\* ------------------------------------------------------ the camped listener
\* RedisPull.listen 362-365 on the endpoint's address and the lazy subscription
\* of the first get_one; a reader of the channel named by a 'redis://'
\* fcm_device_id (test_endpoints.py 129-138) subscribes the same way
Listen ==
    \E address \in {endpoints["E1"].redis_pub_sub, endpoints["E1"].fcm_device_id} :
        /\ listener.pc = "off"
        /\ address # None
        /\ CanConnect(address)
        /\ listener' = [listener EXCEPT !.pc = "listening", !.address = address,
                                        !.aio_redis = TRUE, !.channel = Topic(address)]
        /\ UNCHANGED <<alive, endpoints, endpoints_cache, req, chan, queue, hist>>

\* the listener drops the close frame and stays camped
OnClose_Camped(l) == l

\* AsyncRedisChannel.read 116-118 with __terminate 165-170, then
\* Listener.get_one 336-338: the close frame ends the listener
OnClose(l) == [l EXCEPT !.pc = "closed", !.aio_redis = FALSE, !.channel = NoTopic]

\* Listener.get_one 330-347: a Request for a push frame, other frames skipped
GetOne ==
    LET packet == Head(queue["L"])
    IN  /\ listener.pc = "listening"
        /\ queue["L"] # <<>>
        /\ queue' = [queue EXCEPT !["L"] = Tail(@)]
        /\ IF packet.kind = "close"
           THEN /\ listener' = OnClose(listener)
                /\ UNCHANGED hist
           ELSE IF packet.body.type = PUSH_MSG_TYPE
           THEN /\ listener' = [listener EXCEPT !.pc = "ack", !.request = packet]
                /\ hist' = [hist EXCEPT !.yielded =
                              Append(@, <<packet.body.id, packet.body.message>>)]
           ELSE /\ UNCHANGED <<listener, hist>>
        /\ UNCHANGED <<alive, endpoints, endpoints_cache, req, chan>>

\* the addresses that have an entry in the reverse-channel cache
Keys(channels) == {channels[i].address : i \in 1..Len(channels)}

\* ExpiringDict.get: the channel cached under the address, 0 (None) without one
ChannelsGet(channels, address) ==
    IF address \in Keys(channels)
    THEN channels[CHOOSE i \in 1..Len(channels) : channels[i].address = address].channel
    ELSE 0

\* ExpiringDict.__setitem__ with max_len: a full dict drops its oldest entry
\* before the new one is put at the end
ChannelsSet(channels, address, channel) ==
    LET entry == [address |-> address, channel |-> channel]
        others == SelectSeq(channels, LAMBDA e : e.address # address)
    IN  IF address \in Keys(channels)
        THEN IF Len(channels) = max_len
             THEN Append(others, entry)
             ELSE [i \in 1..Len(channels) |->
                     IF channels[i].address = address THEN entry ELSE channels[i]]
        ELSE IF Len(channels) = max_len
             THEN Append(Tail(channels), entry)
             ELSE Append(channels, entry)

\* del dict[address]: the entry is removed (KeyError without one, see AckWrite)
ChannelsDel(channels, address) == SelectSeq(channels, LAMBDA e : e.address # address)

\* Request.ack 306-309: the cached channel of the reverse address, or a new
\* one (named after the request that builds it) put into the cache
WithChannel(channels, address, id) ==
    IF address \in Keys(channels) THEN channels ELSE ChannelsSet(channels, address, id)

\* Request.ack 305-319: publish the ACK on the carried reverse channel
AckRequest ==
    LET request == listener.request.body
        reverse == request.reverse_channel
    IN  /\ listener.pc = "ack"
        /\ \E fault \in Faults :
             IF fault \/ ~CanConnect(reverse)
             THEN /\ listener' = [listener EXCEPT !.pc = "listening", !.request = NoFrame,
                                                  !.reverse_channels =
                                                      ChannelsDel(@, reverse)]
                  /\ hist' = Faulted(fault)
                  /\ UNCHANGED queue
             ELSE /\ listener' = [listener EXCEPT !.pc = "listening", !.request = NoFrame,
                                                  !.reverse_channels =
                                                      WithChannel(@, reverse, request.id)]
                  /\ queue' = Publish(queue, Topic(reverse), Ack(request.id))
                  /\ hist' = [hist EXCEPT !.acked = @ \cup {request.id}]
        /\ UNCHANGED <<alive, endpoints, endpoints_cache, req, chan>>

\* Request.ack 306-309 of a Request handed out by the RedisPull, up to the
\* await of the write: look the channel up, build and cache it when missing
AckGet(a) ==
    /\ listener.acks[a].pc \in {"new", "done"}
    /\ listener.requests < MaxAcks
    /\ \E address \in ReverseAddresses(listener.requests + 1) :
          LET id == listener.requests + 1
              channels == WithChannel(listener.reverse_channels, address, id)
          IN  listener' = [listener EXCEPT
                  !.requests = id,
                  !.reverse_channels = channels,
                  !.acks[a] = [NoAck EXCEPT !.pc = "write", !.id = id,
                                            !.address = address,
                                            !.channel = ChannelsGet(channels, address)]]
    /\ UNCHANGED <<alive, endpoints, endpoints_cache, req, chan, queue, hist>>

\* Request.ack 310-319: the write returns whether a reader got the ACK; on
\* RedisConnectionError del cache[address], which raises KeyError when the
\* address has no entry any more, and return False
AckWrite(a) ==
    LET ack == listener.acks[a]
        channels == listener.reverse_channels
        cached == ack.address \in Keys(channels)
        n == Cardinality(Delivered(Topic(ack.address)))
    IN  /\ ack.pc = "write"
        /\ \E fault \in Faults :
             IF fault \/ ~CanConnect(ack.address)
             THEN /\ listener' = [listener EXCEPT
                        !.reverse_channels = ChannelsDel(@, ack.address),
                        !.acks[a] = [ack EXCEPT
                            !.pc = "done", !.failed = TRUE, !.evicted = ~cached,
                            !.left = ack.address \in Keys(ChannelsDel(channels, ack.address)),
                            !.result = IF cached THEN "false" ELSE "KeyError"]]
                  /\ hist' = Faulted(fault)
                  /\ UNCHANGED queue
             ELSE /\ listener' = [listener EXCEPT
                        !.acks[a] = [ack EXCEPT
                            !.pc = "done",
                            !.result = IF n > 0 THEN "true" ELSE "false"]]
                  /\ queue' = Publish(queue, Topic(ack.address), Ack(ack.id))
                  /\ UNCHANGED hist
        /\ UNCHANGED <<alive, endpoints, endpoints_cache, req, chan>>

\* Listener.close 349-351 and AsyncRedisChannel.close 137-143 on the camped
\* listener: its connection is in subscribe mode, where aioredis refuses the
\* PUBLISH of the close frame with a RedisError, so close raises
\* RedisConnectionError and no frame is sent.  The listener reads no more;
\* its subscription lasts until the channel object is released.
Close ==
    /\ listener.pc = "listening"
    /\ listener' = [listener EXCEPT !.pc = "closing"]
    /\ hist' = [hist EXCEPT !.closed_after = hist.posts]
    /\ UNCHANGED <<alive, endpoints, endpoints_cache, req, chan, queue>>

\* AsyncRedisChannel.__del__ 69-71 and __terminate 166-170 of the released
\* listener channel: the connection is closed and the subscription ends
Terminate ==
    /\ listener.pc = "closing"
    /\ listener' = [listener EXCEPT !.pc = "closed", !.aio_redis = FALSE,
                                    !.channel = NoTopic]
    /\ queue' = [queue EXCEPT !["L"] = <<>>]
    /\ UNCHANGED <<alive, endpoints, endpoints_cache, req, chan, hist>>

\* Listener.close 349-351 and AsyncRedisChannel.close 137-143 on a Listener
\* of the endpoint's address that has not read yet (RedisPull.listen 362-365
\* builds it without a connection): close connects and publishes the close
\* sentinel, which reaches every subscription of the topic
CloseUnread ==
    LET address == endpoints["E1"].redis_pub_sub
        topic == Topic(address)
    IN  /\ hist.closes < MaxCloses
        /\ address # None /\ CanConnect(address)
        /\ queue' = Publish(queue, topic, CloseFrame)
        /\ req' = [h \in Handlers |->
                     IF h \in Delivered(topic)
                     THEN [req[h] EXCEPT !.sentinel = TRUE] ELSE req[h]]
        /\ hist' = [hist EXCEPT !.closes = @ + 1]
        /\ UNCHANGED <<alive, endpoints, endpoints_cache, chan, listener>>

\* ------------------------------------------------------------------- time
\* a task is blocked when it waits for a frame that has not arrived
Blocked(h) ==
    \/ req[h].pc \in {"idle", "done"}
    \/ req[h].pc = "wait" /\ queue[h] = <<>> /\ req[h].timer > 0

Tick ==
    /\ \A h \in Handlers : Blocked(h)
    /\ \E h \in Handlers : req[h].pc = "wait"
    /\ listener.pc # "ack"
    /\ ~(listener.pc = "listening" /\ queue["L"] # <<>>)
    /\ req' = [h \in Handlers |->
                 IF req[h].pc = "wait"
                 THEN [req[h] EXCEPT !.remaining = @ - 1, !.timer = @ - 1]
                 ELSE req[h]]
    /\ UNCHANGED <<alive, endpoints, endpoints_cache, chan, queue, listener, hist>>

\* everything a task of the mediator or the listener can do next
Step(h) ==
    \/ LoadEndpoint(h) \/ CacheGet(h) \/ CacheDelete(h) \/ LoadDb(h) \/ CacheSet(h)
    \/ Write(h) \/ Subscribe(h) \/ Recv(h) \/ Timeout(h) \/ ReadError(h)
    \/ Clean(h) \/ Rotate(h) \/ Rebind(h)

\* two requests, each in its own slot, in any interleaving (h1 is the first),
\* with a listener that stays
Next ==
    \/ \E h \in Handlers :
          \/ Post(h) /\ req[h].pc = "idle" /\ (h = "h1" \/ req["h1"].pc # "idle")
          \/ Step(h)
    \/ Listen \/ GetOne \/ AckRequest
    \/ Tick

Spec == Init /\ [][Next]_vars

\* up to MaxPosts requests one after the other, with a listener that may close
NextSeq ==
    \/ Post("h1")
    \/ Step("h1")
    \/ Listen \/ GetOne \/ AckRequest \/ Close \/ Terminate
    \/ Tick

SpecSeq == Init /\ [][NextSeq]_vars

\* two requests in any interleaving and a listener that stays, under the
\* scheduling of the asyncio event loop: a task that can run does run (a handler
\* between its awaits, the listener on a frame that has arrived) and time goes
\* on while every task is waiting
SpecLive ==
    /\ InitLive /\ [][Next]_vars
    /\ \A h \in Handlers : WF_vars(Step(h))
    /\ WF_vars(GetOne \/ AckRequest) /\ WF_vars(Tick)

\* every configured broker up, an endpoint on one of them
InitSentinel == InitWith({Configured}, {Addr("redis1", "X")}, {None}, {<<>>})

\* one request, the camped listener, and a second listener of the endpoint
\* that closes without having read, under the scheduling of the event loop
\* (the steps of Step but CacheDelete: the address cache of a first request
\* holds nothing to delete)
NextSentinel ==
    \/ Post("h1") /\ req["h1"].pc = "idle"
    \/ LoadEndpoint("h1") \/ CacheGet("h1") \/ LoadDb("h1") \/ CacheSet("h1")
    \/ Write("h1") \/ Subscribe("h1") \/ Recv("h1") \/ Timeout("h1")
    \/ ReadError("h1") \/ Clean("h1") \/ Rotate("h1") \/ Rebind("h1")
    \/ Listen \/ GetOne \/ AckRequest \/ CloseUnread
    \/ Tick

SpecSentinel ==
    /\ InitSentinel /\ [][NextSentinel]_vars
    /\ WF_vars(Step("h1")) /\ WF_vars(GetOne \/ AckRequest) /\ WF_vars(Tick)

\* no endpoint, redis1 up and redis2 down or both up
InitAck ==
    /\ alive \in {{"redis1"}, Configured}
    /\ endpoints = [u \in Uids |-> NoRow]
    /\ InitIdle

\* the Requests of one RedisPull acknowledged by two tasks, each Request in
\* turn: the calls of Request.ack on their own
NextAck == \E a \in AckSlots : AckGet(a) \/ AckWrite(a)

SpecAck == InitAck /\ [][NextAck]_vars

\* two requests, the second posted when the first has ended, each by its own
\* RedisPush, with the camped listener and the second listener that closes
\* without having read
NextStale ==
    \/ \E h \in Handlers :
          \/ Post(h) /\ req[h].pc = "idle" /\ (h = "h1" \/ req["h1"].pc = "done")
          \/ Step(h)
    \/ Listen \/ GetOne \/ AckRequest \/ CloseUnread
    \/ Tick

SpecStale == InitSentinel /\ [][NextStale]_vars

\* calls of choice_server_address while the set of live brokers stays
NextSelect == Select

SpecSelect == InitSelect /\ [][NextSelect]_vars

\* calls of ensure_endpoint_exists on a table that starts empty
NextCrud == Ensure

SpecCrud == InitCrud /\ [][NextCrud]_vars

\* ------------------------------------------- one AsyncRedisChannel on its own
\* the address of the two channel objects of SpecChannel
ChannelAddress == Addr("redis1", "X")

\* the connection is taken as it is, closed or not
connection_Reuse(ch, ok) ==
    IF ~ch.aio_redis
    THEN IF ok
         THEN [ch |-> [ch EXCEPT !.aio_redis = TRUE, !.closed = FALSE,
                                 !.channel = NoTopic],
               error |-> FALSE, used |-> "new"]
         ELSE [ch |-> [ch EXCEPT !.channel = NoTopic], error |-> TRUE, used |-> "none"]
    ELSE [ch |-> ch, error |-> FALSE,
          used |-> IF ch.closed THEN "released" ELSE "open"]

\* AsyncRedisChannel.connection 77-91: a connection is created when there is
\* none or the one there is closed; creating drops the subscription first, and
\* a failed create_redis raises with the old connection object left in place
connection(ch, ok) ==
    IF ~ch.aio_redis \/ ch.closed
    THEN IF ok
         THEN [ch |-> [ch EXCEPT !.aio_redis = TRUE, !.closed = FALSE,
                                 !.channel = NoTopic],
               error |-> FALSE, used |-> "new"]
         ELSE [ch |-> [ch EXCEPT !.channel = NoTopic], error |-> TRUE, used |-> "none"]
    ELSE [ch |-> ch, error |-> FALSE, used |-> "open"]

\* AsyncRedisChannel.__terminate 165-170: with a connection, close it and drop
\* subscription and connection
terminate(ch) ==
    IF ch.aio_redis
    THEN [ch EXCEPT !.aio_redis = FALSE, !.closed = FALSE, !.channel = NoTopic,
                    !.torn = TRUE]
    ELSE [ch EXCEPT !.torn = TRUE]

\* AsyncRedisChannel.write 125-135: publish on the connection; aioredis refuses
\* PUBLISH on a connection in subscribe mode with a RedisError
ChWrite(h) ==
    /\ Len(hist.published) < MaxPosts
    /\ \E fault \in Faults :
         LET c == connection(chan[h], CanConnect(ChannelAddress) /\ ~fault)
         IN  /\ hist' = [Faulted(fault) EXCEPT !.published =
                           IF c.error \/ fault \/ c.ch.channel # NoTopic
                           THEN @ ELSE Append(@, <<0, None>>)]
             /\ IF c.error \/ fault \/ c.ch.channel # NoTopic
                THEN /\ chan' = [chan EXCEPT ![h] =
                                  [c.ch EXCEPT !.last = "write:error", !.used = c.used]]
                     /\ UNCHANGED queue
                ELSE /\ chan' = [chan EXCEPT ![h] =
                                  [c.ch EXCEPT !.last = "write:ok", !.used = c.used]]
                     /\ queue' = Publish(queue, Topic(ChannelAddress), Ack(0))
    /\ UNCHANGED <<alive, endpoints, endpoints_cache, req, listener>>

\* AsyncRedisChannel.close 137-143: publish the close frame the same way
ChClose(h) ==
    /\ hist.closes < MaxCloses
    /\ \E fault \in Faults :
         LET c == connection(chan[h], CanConnect(ChannelAddress) /\ ~fault)
         IN  IF c.error \/ fault \/ c.ch.channel # NoTopic
             THEN /\ chan' = [chan EXCEPT ![h] =
                               [c.ch EXCEPT !.last = "close:error", !.used = c.used]]
                  /\ hist' = Faulted(fault)
                  /\ UNCHANGED queue
             ELSE /\ chan' = [chan EXCEPT ![h] =
                               [c.ch EXCEPT !.last = "close:ok", !.used = c.used]]
                  /\ queue' = Publish(queue, Topic(ChannelAddress), CloseFrame)
                  /\ hist' = [hist EXCEPT !.closes = @ + 1]
    /\ UNCHANGED <<alive, endpoints, endpoints_cache, req, listener>>

\* AsyncRedisChannel.read 108-123 inside channel 93-106: connect, subscribe
\* when there is no subscription, then a frame, the timeout or an error; every
\* RedisConnectionError terminates the channel before it is raised again
ChRead(h) ==
    \E fault \in Faults :
        LET c == connection(chan[h], CanConnect(ChannelAddress) /\ ~fault)
            subscribed == [c.ch EXCEPT !.channel = Topic(ChannelAddress),
                                       !.used = c.used]
            arrived == IF c.ch.channel = NoTopic THEN <<>> ELSE queue[h]
        IN  /\ hist' = Faulted(fault)
            /\ IF c.error \/ fault
               THEN /\ chan' = [chan EXCEPT ![h] =
                                 [terminate(c.ch) EXCEPT !.last = "read:error",
                                                         !.used = c.used]]
                    /\ queue' = [queue EXCEPT ![h] = <<>>]
               ELSE IF arrived = <<>>
               THEN /\ chan' = [chan EXCEPT ![h] =
                                 [subscribed EXCEPT !.last = "read:timeout"]]
                    /\ queue' = [queue EXCEPT ![h] = <<>>]
               ELSE IF Head(arrived).kind = "close"
               THEN /\ chan' = [chan EXCEPT ![h] =
                                 [terminate(subscribed) EXCEPT !.last = "read:close"]]
                    /\ queue' = [queue EXCEPT ![h] = <<>>]
               ELSE /\ chan' = [chan EXCEPT ![h] =
                                 [subscribed EXCEPT !.last = "read:data"]]
                    /\ queue' = [queue EXCEPT ![h] = Tail(arrived)]
    /\ UNCHANGED <<alive, endpoints, endpoints_cache, req, listener>>

\* the broker or the network closes the connection of a channel: aio_redis.closed
\* becomes true, the fields of the channel object stay as they are
ConnLost(h) ==
    /\ chan[h].aio_redis /\ ~chan[h].closed
    /\ chan' = [chan EXCEPT ![h].closed = TRUE]
    /\ queue' = [queue EXCEPT ![h] = <<>>]
    /\ UNCHANGED <<alive, endpoints, endpoints_cache, req, listener, hist>>

\* redis1 up or down, no endpoint
InitChannel ==
    /\ alive \in {{"redis1"}, {}}
    /\ endpoints = [u \in Uids |-> NoRow]
    /\ InitIdle

\* two AsyncRedisChannel objects of one address, each called by its owner
NextChannel ==
    \E h \in Handlers : ChWrite(h) \/ ChClose(h) \/ ChRead(h) \/ ConnLost(h)

SpecChannel == InitChannel /\ [][NextChannel]_vars

\* every configured broker up or none, the endpoint on one of them or on a
\* host that is none of them (test_endpoints.py 194-215)
InitRebind ==
    InitWith({Configured, {}}, {Addr("redis1", "X"), Addr("unreachable", "X")},
             FcmDeviceIds, {<<>>})

\* one POST to an endpoint nobody listens on, with a database that may refuse
\* the write of the rotation, and one write of another caller to the table
\* while the POST is being served.  (The other specifications take the
\* database to be available.)
NextRebind ==
    \/ Post("h1") /\ req["h1"].pc = "idle"
    \/ LoadEndpoint("h1") \/ CacheGet("h1") \/ LoadDb("h1") \/ CacheSet("h1")
    \/ Write("h1") \/ Clean("h1") \/ Rotate("h1") \/ Rebind("h1") \/ RebindFails("h1")
    \/ Ensure /\ hist.ensured = <<>> /\ req["h1"].pc \notin {"idle", "done"}

SpecRebind == InitRebind /\ [][NextRebind]_vars

\* sequential requests to endpoints with and without routing keys
SpecFwd == InitFwd /\ [][NextSeq]_vars

\* two requests in any interleaving with a listener that may close
NextClose == Next \/ Close \/ Terminate

SpecClose == InitLive /\ [][NextClose]_vars

\* ------------------------------------------------------------- properties
IsData(frame) == frame.kind = "data"

\* the frame is an ACK that carries the id of the request of handler h
OwnAck(h, frame) ==
    /\ IsData(frame)
    /\ frame.body.type = ACK_MSG_TYPE
    /\ frame.body.id = req[h].request.body.id

Published(h) == "publish" \in req[h].effects

\* C1: push returns true only if, after publishing its PushRequest and before
\* expire_at, it read from the reverse channel a data frame of type ACK whose
\* id is the id of that PushRequest and whose status is true; it never returns
\* true for a request that no listener acknowledged.
C1_TrueOnlyOnOwnAck ==
    \A h \in Handlers :
        req[h].success =>
            /\ Published(h)
            /\ OwnAck(h, req[h].response)
            /\ req[h].response.body.status = TRUE
            /\ req[h].read_left > 0
            /\ req[h].request.body.id \in hist.acked

\* a push has returned true and its POST was answered 202 while the other
\* request of the behaviour had been acknowledged as well
C1_Witness ==
    \E h \in Handlers :
        /\ req[h].pc = "done" /\ req[h].success /\ req[h].status = 202
        /\ Cardinality(hist.acked) = 2

\* C2: a single push to an endpoint with a camped listener that acknowledges
\* every Request at once returns true and the POST is answered 202, in every
\* interleaving of the listener's ACK with the dispatcher's lazy subscription.
C2_CampedPushAnswered202 ==
    \A h \in Handlers :
        ( /\ hist.posts = 1 /\ hist.faults = 0
          /\ req[h].pc = "done" /\ req[h].camped /\ ~req[h].raised )
        => req[h].success /\ req[h].status = 202

\* a single push to a camped listener that did get its ACK
C2_Witness ==
    \E h \in Handlers :
        /\ hist.posts = 1 /\ hist.faults = 0
        /\ req[h].pc = "done" /\ req[h].camped /\ req[h].status = 202

\* two pushes in flight at once: a PushRequest reached the listener and the
\* subscription of the other push
Overlapped == \E h \in Handlers : req[h].camped /\ req[h].delivered = 2

\* C3: when two pushes to one endpoint are in flight concurrently and the
\* camped listener acknowledges both requests before their expire_at, both
\* pushes return true.
C3_BothConcurrentPushesTrue ==
    ( /\ hist.faults = 0 /\ Overlapped
      /\ \A h \in Handlers :
            /\ req[h].pc = "done" /\ req[h].camped /\ ~req[h].raised
            /\ req[h].request.body.id \in hist.acked )
    => \A h \in Handlers : req[h].success

\* two overlapping pushes, both acknowledged, both true: one of them read the
\* ACK of the other and went on to its own
C3_Witness ==
    /\ Overlapped
    /\ \A h \in Handlers : req[h].pc = "done" /\ req[h].success
    /\ \E h \in Handlers : req[h].skipped = 1

\* a read of handler h returns this frame, which is not an ACK of its request
ReadsOther(h) ==
    /\ req[h].pc = "wait" /\ req[h].timer > 0 /\ queue[h] # <<>>
    /\ IsData(Head(queue[h])) /\ ~OwnAck(h, Head(queue[h]))
    /\ req'[h] # req[h]
    /\ req'[h].response = Head(queue[h])

C4_ReadsAgain ==
    \A h \in Handlers :
        ReadsOther(h) =>
            /\ req'[h].pc = "wait"
            /\ req'[h].delta = req[h].remaining
            /\ req'[h].timer = req[h].remaining
            /\ ~req'[h].success /\ req'[h].status = 0

C4_StillTrue ==
    \A h \in Handlers :
        ( /\ req[h].pc = "done" /\ req[h].skipped = 1
          /\ OwnAck(h, req[h].response) /\ req[h].read_left > 0 )
        => req[h].success /\ req[h].status = 202

\* C4: a waiting push that reads a data frame which is not an ACK with its own
\* id does not return on that frame: it reads again with the deadline
\* expire_at minus now, and it still returns true when its own ACK arrives
\* before expire_at.
C4_OtherFramesSkipped == [][C4_ReadsAgain]_vars /\ []C4_StillTrue

\* a push returned true after it had read a frame that was not its ACK
C4_Witness ==
    \E h \in Handlers :
        req[h].pc = "done" /\ req[h].skipped = 1 /\ req[h].success

\* the requests of a sequence of POSTs, served one after the other by h1
Sequential == req["h2"].pc = "idle"

\* C5: for a sequence of POSTs to one endpoint with one camped, acknowledging
\* listener every POST is answered 202 and the listener yields exactly one
\* Request per POST, in POST order, each with the message of that POST.
C5_EveryPostDelivered ==
    ( /\ Sequential /\ hist.faults = 0 /\ hist.camped_all
      /\ req["h1"].pc = "done" /\ Len(hist.published) = hist.posts )
    => /\ req["h1"].status = 202
       /\ hist.yielded = hist.published
       /\ \A i \in 1..Len(hist.yielded) : hist.yielded[i][2] = JsonLoads(Payload(Bodies[i]))

\* the second POST of a sequence is delivered like the first
C5_Witness ==
    /\ Sequential /\ hist.faults = 0 /\ hist.camped_all
    /\ req["h1"].pc = "done" /\ req["h1"].status = 202
    /\ hist.posts = 2 /\ hist.yielded = hist.published /\ Len(hist.yielded) = 2

IsRebound(address, old) ==
    /\ Len(address) = 4 /\ address[1] = "redis:" /\ address[2] = ""
    /\ address[3] \in Configured \cap alive
    /\ address[4] = ChannelName(old)

C8_FailedBrokerOnlyIfAlone ==
    \A h \in Handlers :
        ( /\ req[h].pc = "done" /\ req[h].raised /\ "db_write" \in req[h].effects
          /\ HostOf(req[h].redis_server) = HostOf(BrokerAddress(req[h].old_pub_sub)) )
        => Configured \cap alive \subseteq {HostOf(req[h].redis_server)}

\* the failed broker was written back when it was the only one alive
C8_Witness ==
    \E h \in Handlers :
        /\ req[h].pc = "done" /\ req[h].raised /\ "db_write" \in req[h].effects
        /\ HostOf(req[h].redis_server) = HostOf(BrokerAddress(req[h].old_pub_sub))
        /\ alive = {HostOf(req[h].redis_server)}

\* C9: after a successful rebind of an endpoint to broker B every later
\* resolve of its uid, with or without ignore_cache, returns an address whose
\* broker host is B.
C9_ResolveAfterRebind ==
    \A h \in Handlers :
        ( /\ hist.rebinds > 0 /\ req[h].seen_rebinds = hist.rebinds
          /\ req[h].resolved # <<>> )
        => /\ req[h].resolved[1] # None
           /\ HostOf(BrokerAddress(req[h].resolved[1])) = hist.rebound

\* a resolve after a rebind that did return the new address
C9_Witness ==
    \E h \in Handlers :
        /\ hist.rebinds > 0 /\ req[h].seen_rebinds = hist.rebinds
        /\ req[h].resolved # <<>> /\ req[h].resolved[1] # None
        /\ HostOf(BrokerAddress(req[h].resolved[1])) = hist.rebound

C10_NoEffects ==
    \A h \in Handlers :
        (req[h].pc # "idle" /\ req[h].content_type \notin EXPECTED_CONTENT_TYPES)
        => /\ req[h].pc = "done" /\ req[h].status = 415
           /\ req[h].effects = {} /\ req[h].request = NoFrame
           /\ req[h].address = None /\ chan[h] = NoChannel

C10_PostStep ==
    \A h \in Handlers :
        (req'[h] # req[h] /\ req'[h].status = 415)
        => /\ UNCHANGED <<alive, endpoints, endpoints_cache, chan, queue, listener>>
           /\ hist' = [hist EXCEPT !.posts = @ + 1]

\* C10: a POST whose Content-Type is not one of the four accepted types is
\* answered 415 before anything else happens: no endpoint row or cache entry
\* is read or changed, no channel is created and nothing is published,
\* whether or not the endpoint uid exists.
C10_Rejected415First == []C10_NoEffects /\ [][C10_PostStep]_vars

\* a 415 for an unknown uid and one for a known uid
C10_Witness ==
    /\ req["h1"].status = 415 /\ req["h1"].uid = "E0"
    /\ req["h2"].status = 415 /\ req["h2"].uid = "E1"

\* push was called for the request of handler h and returned False
PushFalse(h) ==
    /\ req[h].pc = "done" /\ req[h].fields.exists
    /\ ~req[h].raised /\ ~req[h].success

\* C11: when push returns false the response is 410 for an endpoint without
\* fcm_device_id; with one it is 421 when FCM is disabled, and with FCM
\* enabled the bridge send is attempted once and the response is 202 on
\* success and 410 on failure or an exception of the send.
C11_FalseThenFcmRules ==
    \A h \in Handlers :
        PushFalse(h) =>
            IF req[h].fields.fcm_device_id = None
            THEN req[h].status = 410
            ELSE req[h].status \in {202, 410, 421}

\* push returned false for an endpoint without fcm_device_id: 410
C11_Witness ==
    \E h \in Handlers :
        /\ PushFalse(h) /\ Published(h)
        /\ req[h].fields.fcm_device_id = None /\ req[h].status = 410

\* when the handler h came to its response a reader was subscribed to the
\* channel named by the fcm_device_id of the endpoint
FcmReader(h) == req[h].fcm_reader

\* C12: for an endpoint without pub_sub_address whose fcm_device_id is a
\* broker URL with a subscriber on its channel, one POST is answered 202 and
\* puts one data frame with the JSON-decoded body on that channel, while push
\* itself creates no channel and publishes nothing.
C12_FcmOverBrokerDelivers ==
    \A h \in Handlers :
        ( /\ req[h].pc = "done" /\ req[h].fields.exists
          /\ req[h].fields.redis_pub_sub = None
          /\ IsRedisUrl(req[h].fields.fcm_device_id) /\ FcmReader(h) )
        => /\ req[h].status = 202
           /\ ~Published(h) /\ "channel" \notin req[h].effects

\* push returned false without a channel or a publish while the reader waited
C12_Witness ==
    \E h \in Handlers :
        /\ req[h].pc = "done" /\ req[h].fields.exists
        /\ req[h].fields.redis_pub_sub = None
        /\ IsRedisUrl(req[h].fields.fcm_device_id) /\ FcmReader(h)
        /\ ~Published(h) /\ "channel" \notin req[h].effects /\ ~req[h].success
        /\ queue["L"] = <<>>

\* the ordinal of the POST served by handler h
Ordinal(h) == CHOOSE n \in 1..Len(Bodies) : Bodies[n] = req[h].body

\* the POST of handler h came in after the listener had closed
AfterClose(h) ==
    /\ req[h].pc # "idle" /\ hist.closed_after >= 0
    /\ Ordinal(h) > hist.closed_after

\* C13: after the camped listener of an endpoint has closed, with no other
\* listener camped, a POST with an accepted type to that endpoint (no
\* fcm_device_id) is answered 410.
C13_AfterCloseGone ==
    \A h \in Handlers :
        ( /\ req[h].pc = "done" /\ AfterClose(h)
          /\ req[h].fields.exists /\ req[h].fields.fcm_device_id = None )
        => ~req[h].success /\ req[h].status = 410

\* a POST delivered and acknowledged, the listener closed, the next POST
\* published to nobody and answered 410
C13_Witness ==
    \E h \in Handlers :
        /\ hist.closed_after = 1 /\ hist.acked # {}
        /\ req[h].pc = "done" /\ req[h].status = 410 /\ AfterClose(h)
        /\ Published(h) /\ listener.pc = "closed"

\* C14: a POST with an accepted Content-Type to a uid that has no endpoint row
\* is answered 404, and nothing but the reading of the database happens for
\* it: no push (no cache access, no channel, no request), no publish, no
\* broker probe, no FCM fallback and no write of the directory.
C14_Unknown404 ==
    \A h \in Handlers :
        ( /\ req[h].pc # "idle" /\ Accepted(req[h].content_type)
          /\ ~endpoints[req[h].uid].exists )
        => /\ req[h].pc \in {"load", "done"}
           /\ req[h].pc = "done" => req[h].status = 404
           /\ req[h].effects \subseteq {"db_read"}
           /\ req[h].request = NoFrame /\ ~Published(h)
           /\ ~req[h].success /\ ~req[h].raised /\ ~req[h].fcm_reader

\* a POST to the unregistered uid answered 404 after the read of the database
C14_Witness ==
    \E h \in Handlers :
        /\ req[h].pc = "done" /\ req[h].status = 404 /\ req[h].uid = "E0"
        /\ Accepted(req[h].content_type) /\ req[h].effects = {"db_read"}

\* C15: the message handed to push is the JSON-decoded POST body unchanged
\* when the endpoint has no routing keys, and the JSON-decoded output of
\* forward_wired(body, their_vk = the endpoint's verkey, routing_keys = the
\* endpoint's keys in order) when it has at least one; the PushRequest carries
\* that message and the listener is handed exactly a published message.
C15_MessageForwarded ==
    /\ \A h \in Handlers :
          LET r == req[h]
              keys == r.fields.routing_keys
          IN  (r.pc \notin {"idle", "load"} /\ r.fields.exists)
              => /\ keys = <<>> => r.message = [json |-> <<r.body>>]
                 /\ keys # <<>> =>
                       r.message = [json |-> forward_wired(<<r.body>>, r.fields.verkey, keys)]
                 /\ r.request # NoFrame => r.request.body.message = r.message
    /\ \A i \in 1..Len(hist.yielded) :
          /\ \E j \in 1..Len(hist.published) : hist.published[j] = hist.yielded[i]
          /\ \E n \in 1..hist.posts :
                LET row == endpoints["E1"]
                IN  hist.yielded[i][2] =
                        [json |-> forward_wired(<<Bodies[n]>>, row.verkey, row.routing_keys)]

\* the listener got the body of the first POST wrapped for K1 and then for K2,
\* which is not the body itself, and acknowledged it
C15_Witness ==
    /\ endpoints["E1"].routing_keys = <<"K1", "K2">>
    /\ hist.acked # {}
    /\ \E i \in 1..Len(hist.yielded) :
          /\ hist.yielded[i][2] =
                [json |-> <<"packed-for", "K2", "forward-to", "K1",
                            "packed-for", "K1", "forward-to", "V", "B1">>]
          /\ hist.yielded[i][2] # [json |-> <<"B1">>]

\* the frames of type ACK waiting in the queue of subscriber s
AcksIn(s) == {i \in 1..Len(queue[s]) : queue[s][i].kind = "data"
                                        /\ queue[s][i].body.type = ACK_MSG_TYPE}

\* C16: the listener yields a Request only for a data frame whose @type is
\* PUSH_TYPE, with the id, message and reverse_channel of that frame; a frame
\* of another @type (an ACK on the shared channel) is consumed and the
\* listener goes on listening; and Request.ack() publishes, on the topic of the
\* reverse_channel carried in the request, an Ack with the request's @id,
\* @type ACK_TYPE and status true, which is the only kind of ACK ever in flight.
C16_YieldPushAckMatching ==
    /\ [](\A s \in Subscribers : \A i \in AcksIn(s) :
             /\ queue[s][i].body.id \in hist.acked
             /\ queue[s][i].body.status = TRUE)
    /\ [](listener.pc = "ack"
             => /\ listener.request.kind = "data"
                /\ listener.request.body.type = PUSH_MSG_TYPE
                /\ Last(hist.yielded) = <<listener.request.body.id,
                                          listener.request.body.message>>)
    /\ [][ /\ (listener.pc # "ack" /\ listener'.pc = "ack")
              => /\ queue["L"] # <<>> /\ listener'.request = Head(queue["L"])
                 /\ Head(queue["L"]).kind = "data"
                 /\ Head(queue["L"]).body.type = PUSH_MSG_TYPE
           /\ hist'.yielded # hist.yielded
              => listener.pc # "ack" /\ listener'.pc = "ack"
           /\ ( /\ listener.pc = "listening" /\ queue["L"] # <<>>
                /\ Head(queue["L"]).kind = "data"
                /\ Head(queue["L"]).body.type # PUSH_MSG_TYPE
                /\ queue'["L"] = Tail(queue["L"]) )
              => listener' = listener /\ hist'.yielded = hist.yielded
           /\ hist'.acked # hist.acked
              => LET request == listener.request.body
                 IN  /\ listener.pc = "ack"
                     /\ hist'.acked = hist.acked \cup {request.id}
                     /\ queue' = Publish(queue, Topic(request.reverse_channel),
                                   [kind |-> "data",
                                    body |-> [type |-> ACK_MSG_TYPE, id |-> request.id,
                                              status |-> TRUE]])
         ]_vars

\* the listener yielded one Request, acknowledged it, read its own ACK from
\* the shared channel, skipped it and listens on; the push returned true
C16_Witness ==
    /\ listener.pc = "listening" /\ queue["L"] = <<>>
    /\ Len(hist.yielded) = 1 /\ hist.acked = {hist.yielded[1][1]}
    /\ Topic(listener.address) \in {Topic(a) : a \in Keys(listener.reverse_channels)}
    /\ \E h \in Handlers : req[h].pc = "done" /\ req[h].success

\* handler h is inside pushes.push(endpoint_uid, message, ttl=5)
InPush(h) ==
    req[h].pc \in {"cache_get", "cache_delete", "load_db", "cache_set", "write",
                   "subscribe", "wait"}

\* the call of push of handler h has ended: it raised (the handler is in its
\* except branch) or it returned and the response is decided
PushEnded(h) == req[h].pc \in {"clean", "rotate", "rebind", "done"}

\* C17: every call of push terminates, by returning true or false or by raising
\* BrokerConnectionError; it never runs past expire_at = start + ttl: the
\* deadline of every reverse read is the time remaining to expire_at, and a
\* push that got no matching ACK has returned false by then.
C17_PushTerminates ==
    /\ \A h \in Handlers : InPush(h) ~> PushEnded(h)
    /\ [](\A h \in Handlers :
             /\ InPush(h) => req[h].remaining \in 0..Ttl
             /\ req[h].pc = "wait" => req[h].timer = req[h].remaining
             /\ (req[h].pc = "done" /\ Published(h) /\ ~req[h].raised /\ ~req[h].success)
                => req[h].remaining >= 0)

\* a push that published, read until expire_at without an ACK of its own and
\* returned false exactly when the ttl was used up
C17_Witness ==
    \E h \in Handlers :
        /\ req[h].pc = "done" /\ Published(h) /\ req[h].delivered > 0
        /\ ~req[h].success /\ ~req[h].raised
        /\ req[h].remaining = 0 /\ req[h].response = NoFrame

\* C18: the table holds at most one row per uid (one entry under each uid,
\* present or absent), and a call of ensure_endpoint_exists creates the row
\* when the uid is new, sets the columns that were given and leaves every
\* column that was not given, and every other row, as it was.
C18_UpsertKeepsOmitted ==
    /\ [](DOMAIN endpoints = Uids)
    /\ [][ hist'.ensured # hist.ensured \/ endpoints' # endpoints
           => LET uid == hist'.ensured[1]
                  fields == hist'.ensured[2]
              IN  /\ endpoints'[uid].exists
                  /\ \A c \in DOMAIN fields : endpoints'[uid][c] = fields[c]
                  /\ \A c \in DOMAIN NoRow \ (DOMAIN fields \cup {"exists"}) :
                        endpoints'[uid][c] = endpoints[uid][c]
                  /\ \A u \in Uids \ {uid} : endpoints'[u] = endpoints[u]
         ]_vars

\* E1 was created with a redis_pub_sub only, then ensured with an agent_id
\* only: the row has both (test_crud.py 48-63); E0 has no row
C18_Witness ==
    /\ hist.ensured = <<"E1", [c \in {"agent_id"} |-> "A"]>>
    /\ endpoints["E1"].exists /\ endpoints["E1"].agent_id = "A"
    /\ endpoints["E1"].redis_pub_sub = Addr("redis1", "X")
    /\ endpoints["E1"].verkey = ""
    /\ ~endpoints["E0"].exists

\* C19: when no listener is camped on the endpoint's forward topic at the
\* publish, push returns false directly after it, without a read of the
\* reverse channel: the count it tests is the number of camped listeners and
\* leaves out the subscriptions that pushes of the dispatcher hold on the
\* shared forward/reverse channel.
C19_NoListenerNoRead ==
    \A h \in Handlers :
        (Published(h) /\ ~req[h].camped)
        => /\ req[h].pc = "done" /\ ~req[h].success
           /\ req[h].delivered = 0 /\ req[h].response = NoFrame

\* a push published to nobody at all and returned false in the same step
C19_Witness ==
    \E h \in Handlers :
        /\ Published(h) /\ ~req[h].camped /\ req[h].delivered = 0
        /\ req[h].pc = "done" /\ ~req[h].success /\ ~req[h].raised
        /\ req[h].status = 410 /\ req[h].remaining = Ttl

\* the PushRequests published so far that carry the message of handler h
PublishedOf(h) ==
    {j \in 1..Len(hist.published) : hist.published[j][2] = req[h].message}

\* C20: one call of push publishes at most one PushRequest on the forward
\* channel, whichever cache mode found the channel and however the call ended;
\* a push that raised BrokerConnectionError publishes nothing afterwards, also
\* once the endpoint is re-homed, and a request never publishes under an id
\* other than that of its one PushRequest.
C20_AtMostOnePublish ==
    /\ [](\A h \in Handlers :
             /\ Cardinality(PublishedOf(h)) <= 1
             /\ Published(h) <=> PublishedOf(h) # {}
             /\ \A j \in PublishedOf(h) : hist.published[j][1] = req[h].request.body.id)
    /\ [][\A h \in Handlers :
             (req[h].raised \/ Published(h))
             => \A j \in 1..Len(hist'.published) :
                   hist'.published[j][2] = req[h].message => j <= Len(hist.published)]_vars

\* a push that found its channel in the second cache mode, published once,
\* then raised; the endpoint was re-homed and the POST answered with that one
\* PushRequest published
C20_Witness ==
    \E h \in Handlers :
        /\ req[h].pc = "done" /\ req[h].ignore_cache /\ req[h].raised
        /\ "db_write" \in req[h].effects
        /\ Cardinality(PublishedOf(h)) = 1

\* C21: when a BrokerConnectionError occurs during the forward publish or the
\* reverse read of a push, the endpoint-cache entry of the uid and the channel
\* cache entry of the address are removed by the time the error reaches the
\* caller, and no later lookup of a channel cache returns the pair that failed.
C21_ErrorEvictsBoth ==
    /\ [](\A h \in Handlers :
             (req[h].raised /\ req[h].pc # "clean")
             => /\ req[h].pair # NoPair
                /\ \A e \in req[h].channels_cache : e.address # req[h].pair.address)
    /\ [][\A h \in Handlers :
             /\ (req[h].pc = "clean" /\ req'[h].pc # "clean")
                => /\ req[h].raised /\ req'[h].pc = "rotate"
                   /\ endpoints_cache'[req[h].uid] = None
                   /\ req[h].pair \notin req'[h].channels_cache
             /\ \A g \in Handlers :
                   (req[h].raised /\ req'[g].pair # req[g].pair)
                   => /\ req'[g].pair.forward # req[h].pair.forward
                      /\ req'[g].pair.reverse # req[h].pair.reverse]_vars

\* a push whose reverse read failed after its publish: the error has reached
\* the handler with both entries gone, and the other push holds a pair of its
\* own for the same address
C21_Witness ==
    \E h, g \in Handlers :
        /\ req[h].pc = "rotate" /\ req[h].raised /\ Published(h)
        /\ endpoints_cache[req[h].uid] = None /\ req[h].channels_cache = {}
        /\ req[g].pair # NoPair /\ req[g].pair.address = req[h].pair.address
        /\ req[g].pair # req[h].pair

\* C22: a resolve with ignore_cache = false that finds an entry for the uid in
\* the endpoint cache returns that cached address.
C22_HitReturnsCached ==
    \A h \in Handlers :
        req[h].hit # None => req[h].resolved = <<req[h].hit>>

\* a resolve that found the entry: it read no row for it and left the entry
\* in the cache
C22_Witness ==
    \E h \in Handlers :
        /\ req[h].hit # None /\ req[h].pc = "cache_get" /\ req[h].ignore_cache
        /\ "cache_write" \notin req[h].effects
        /\ endpoints_cache[req[h].uid] = req[h].hit

\* the hosts of the shuffled list other than the one named by unwanted
OtherHosts(unwanted, shuffled) ==
    {shuffled[i] : i \in 1..Len(shuffled)} \ {StripScheme(unwanted)[1]}

\* C23: choice_server_address(unwanted) returns the unwanted broker only if
\* every other configured broker fails the probe, whatever the order the
\* shuffle gave to the list; with a live other broker the result is the first
\* live one of the others in shuffled order.
C23_UnwantedOnlyIfAlone ==
    hist.selected # <<>>
    => LET unwanted == hist.selected[1]
           shuffled == hist.selected[2]
           result == hist.selected[3]
           named == Len(StripScheme(unwanted)) = 1
           others == IF named THEN OtherHosts(unwanted, shuffled) ELSE {}
           first == {i \in 1..Len(shuffled) :
                        /\ shuffled[i] \in others \cap alive
                        /\ \A j \in 1..(i - 1) : shuffled[j] \notin others \cap alive}
       IN  /\ (named /\ result # None /\ <<HostOf(result)>> = StripScheme(unwanted))
              => others \cap alive = {}
           /\ (named /\ others \cap alive # {})
              => \E i \in first : result = <<"redis:", "", shuffled[i]>>

\* the unwanted broker came first in the shuffle and is alive; the two others
\* were probed before it, the dead one first, and the live one was returned
C23_Witness ==
    /\ hist.selected # <<>>
    /\ hist.selected[1] = <<"redis:", "", "redis1">>
    /\ hist.selected[2] = <<"redis1", "redis3", "redis2">>
    /\ alive = {"redis1", "redis2"}
    /\ hist.selected[3] = <<"redis:", "", "redis2">>

\* C24: choice_server_address returns only the address 'redis://<host>' of a
\* configured broker whose probe passes, and it fails (NoOneReachableRedisServer,
\* None here) exactly when no configured broker passes the probe; a broker that
\* cannot be reached fails its probe and the selection goes on to the next.
C24_SelectedPassedProbe ==
    hist.selected # <<>>
    => LET shuffled == hist.selected[2]
           result == hist.selected[3]
           configured == {shuffled[i] : i \in 1..Len(shuffled)}
       IN  /\ result # None
              => /\ result = <<"redis:", "", HostOf(result)>>
                 /\ HostOf(result) \in configured \cap alive
           /\ result = None <=> configured \cap alive = {}

\* the first two brokers of the list are down, the third is up and is the
\* one returned
C24_Witness ==
    /\ hist.selected # <<>>
    /\ hist.selected[1] = None
    /\ hist.selected[2] = <<"redis2", "redis3", "redis1">>
    /\ alive = {"redis1"}
    /\ hist.selected[3] = <<"redis:", "", "redis1">>

\* handler h holds a channel pair obtained from a channel cache and its push
\* has not ended
Holding(h) == req[h].pair # NoPair /\ req[h].pc \in {"write", "subscribe", "wait"}

\* C25: two pushes to the same address that overlap in time obtain the same
\* ChannelPair from the channel cache.
C25_OverlappingPushesSharePair ==
    \A h, g \in Handlers :
        (Holding(h) /\ Holding(g) /\ req[h].pair.address = req[g].pair.address)
        => req[h].pair = req[g].pair

\* each lookup on its own is sound: the pair a push holds is the one entry of
\* the cache it looked in, stored under the resolved address, forward and
\* reverse being one channel
C25_Witness ==
    \E h \in Handlers :
        /\ Holding(h) /\ req[h].channels_cache = {req[h].pair}
        /\ req[h].pair.address = req[h].address
        /\ req[h].pair.forward = req[h].pair.reverse

\* C26: in every reachable state there is at most one live subscription per
\* (broker address, channel name) in the mediator process, counting the
\* channels of the dispatcher and the channel of the listener.
C26_OneSubscriptionPerTopic ==
    \A s, t \in Subscribers :
        (SubscriptionOf(s) # NoTopic /\ SubscriptionOf(s) = SubscriptionOf(t)) => s = t

\* until a push starts to read, the subscription of the camped listener is the
\* only one on the topic: the push has resolved the address of the listener
\* and holds a channel that is not subscribed yet
C26_Witness ==
    /\ listener.pc = "listening" /\ listener.channel = Topic(listener.address)
    /\ Cardinality(Delivered(listener.channel)) = 1
    /\ \E h \in Handlers :
          /\ req[h].pc = "write" /\ Topic(req[h].address) = listener.channel
          /\ chan[h].channel = NoTopic

\* the close sentinel waits in the queue of subscriber s
SentinelIn(s) == \E i \in 1..Len(queue[s]) : queue[s][i] = CloseFrame

\* C28 as stated: after the close sentinel is published, a push that was
\* subscribed and waiting then gets (false, null) from its read and returns
\* false.
C28_WaitingPushReturnsFalse ==
    \A h \in Handlers :
        (req[h].sentinel /\ PushEnded(h))
        => /\ req[h].response = CloseFrame
           /\ ~req[h].success /\ ~req[h].raised

\* C28 amended: after the close sentinel is published on a topic, the channel
\* of every reader subscribed to it then is eventually DISCONNECTED.  A reader
\* whose read returns the sentinel gets (false, null): the listener stops with
\* its channel terminated, the push returns false.  A push whose read ended
\* before it came to the sentinel ended as that read says: true on its own ACK,
\* false on the deadline, BrokerConnectionError on a transport error.
C28_SentinelDisconnects ==
    /\ \A s \in Subscribers : SentinelIn(s) ~> SubscriptionOf(s) = NoTopic
    /\ \A h \in Handlers :
          (req[h].sentinel /\ InPush(h)) ~> (PushEnded(h) /\ chan[h].channel = NoTopic)
    /\ [](\A h \in Handlers :
             (req[h].sentinel /\ PushEnded(h))
             => /\ req[h].response = CloseFrame => ~req[h].success /\ ~req[h].raised
                /\ req[h].success
                      => OwnAck(h, req[h].response)
                /\ (req[h].pc = "done" /\ ~req[h].success /\ ~req[h].raised)
                   => \/ req[h].response = CloseFrame
                      \/ req[h].remaining = 0)
    /\ [][(listener.pc = "listening" /\ queue["L"] # <<>> /\ Head(queue["L"]) = CloseFrame
           /\ queue'["L"] = Tail(queue["L"]))
          => (listener'.pc = "closed" /\ listener'.channel = NoTopic
              /\ ~listener'.aio_redis)]_vars

\* the sentinel reached the camped listener and a waiting push: the push read
\* it and returned false with time left, the listener read it and stopped
C28_Witness ==
    /\ listener.pc = "closed" /\ listener.channel = NoTopic
    /\ \E h \in Handlers :
          /\ req[h].sentinel /\ req[h].pc = "done" /\ req[h].response = CloseFrame
          /\ ~req[h].success /\ req[h].status = 410 /\ req[h].remaining > 0
          /\ chan[h] = NoChannel

\* C27: no lookup of the channel cache returns a pair whose channel had been
\* torn down (by a transport error or by a close sentinel read on it) or whose
\* address had been evicted before the lookup.
C27_NoStalePairHandedOut ==
    \A h \in Handlers : req[h].pair \notin req[h].stale

\* a push ended on the close sentinel and the pair is still the entry of its
\* address; a later lookup of the same address by the other push got a pair of
\* its own
C27_Witness ==
    \E g \in Handlers, h \in Handlers :
        /\ g # h
        /\ req[g].response = CloseFrame /\ req[g].pair \in req[g].channels_cache
        /\ req[g].pair \in req[h].stale
        /\ req[h].pair # NoPair /\ req[h].pair.address = req[g].pair.address
        /\ req[h].pair # req[g].pair

\* C29: when a read of the reverse channel has failed with a transport error
\* (connecting or subscribing for the first read, or waiting for a frame), the
\* channel is DISCONNECTED, its connection and its subscription released, from
\* the moment the error reaches the caller.
C29_ReadErrorTerminates ==
    \A h \in Handlers :
        (req[h].raised /\ Published(h))
        => /\ chan[h] = NoChannel
           /\ SubscriptionOf(h) = NoTopic
           /\ \A a \in PubSubAddresses \ {None} : h \notin Delivered(Topic(a))

\* a push that had read and skipped a frame, so that it was subscribed and
\* waiting, is at the except branch of __clean_on_disconnect after its read
\* failed, with the channel terminated
C29_Witness ==
    \E h \in Handlers :
        /\ req[h].pc = "clean" /\ req[h].raised /\ Published(h)
        /\ req[h].skipped = 1
        /\ chan[h] = NoChannel

\* C30 as stated: the expire_at field of every published PushRequest is the
\* deadline the dispatcher waits for, ttl seconds after the call of push, and
\* its reverse_channel is the address of the channel the dispatcher then reads.
C30_ExpireAtIsDeadline ==
    \A h \in Handlers :
        Published(h)
        => /\ req[h].request.body.expire_at = Ttl
           /\ req[h].request.body.reverse_channel = req[h].pair.address
           /\ chan[h].channel # NoTopic
              => chan[h].channel = Topic(req[h].request.body.reverse_channel)

\* a dispatcher waits for the ACK with its whole ttl ahead, reading the channel
\* named in the request it published, whose expire_at is the time of the call
C30_Witness ==
    \E h \in Handlers :
        /\ Published(h) /\ req[h].pc = "wait" /\ req[h].remaining = Ttl
        /\ chan[h].channel = Topic(req[h].request.body.reverse_channel)
        /\ req[h].request.body.reverse_channel = req[h].pair.address
        /\ req[h].request.body.expire_at = 0

\* C31 as stated: an ack whose publish failed with BrokerConnectionError
\* returned false and left no entry for its reverse address in the
\* reverse-channel cache, and the cache never holds more than 5 entries.
C31_FailedAckEvicts ==
    /\ Len(listener.reverse_channels) <= max_len
    /\ \A a \in AckSlots :
          listener.acks[a].failed
          => /\ listener.acks[a].result = "false"
             /\ ~listener.acks[a].left

\* an ack failed, returned false and its entry is gone; the next ack to the
\* same address built a channel of its own, which is the cached one
C31_Witness ==
    \E a \in AckSlots, b \in AckSlots :
        /\ a # b
        /\ listener.acks[a].failed /\ listener.acks[a].result = "false"
        /\ listener.acks[b].pc = "write" /\ listener.acks[b].id > listener.acks[a].id
        /\ listener.acks[b].address = listener.acks[a].address
        /\ listener.acks[b].channel = listener.acks[b].id
        /\ ChannelsGet(listener.reverse_channels, listener.acks[b].address)
              = listener.acks[b].id

\* C34 as stated: Request.ack never raises; an ack whose publish failed
\* returned false also when the cache entry of its address had been evicted
\* between its insert and the failure.
C34_AckNeverRaises ==
    \A a \in AckSlots :
        /\ listener.acks[a].result # "KeyError"
        /\ (listener.acks[a].failed /\ listener.acks[a].evicted)
           => listener.acks[a].result = "false"

\* the publish of an ack has failed after five other reverse addresses were
\* cached behind its own, which pushed its entry out of the full cache
C34_Witness ==
    \E a \in AckSlots :
        /\ listener.acks[a].pc = "done" /\ listener.acks[a].failed
        /\ listener.acks[a].evicted
        /\ Len(listener.reverse_channels) = max_len
        /\ \A i \in 1..max_len :
              listener.reverse_channels[i].channel > listener.acks[a].id

\* the step in which handler h writes the row after a rotation (mediator.py 110)
RebindStep(h) == req[h].pc = "rebind" /\ req'[h].pc # "rebind"

\* C32: a broker rotation changes only the pub/sub address of the row of the
\* endpoint being served: every other column of that row and every other row
\* are as they were before the write, and no row appears or disappears.
C32_RotationOnlyAddress ==
    [][\A h \in Handlers :
          RebindStep(h)
          => /\ \A u \in Uids \ {req[h].uid} : endpoints'[u] = endpoints[u]
             /\ \A c \in DOMAIN NoRow \ {"redis_pub_sub"} :
                   endpoints'[req[h].uid][c] = endpoints[req[h].uid][c]
      ]_vars

\* a rotation has rewritten the address of the served row to another broker,
\* with the name kept and the other columns as they were loaded
C32_Witness ==
    \E h \in Handlers :
        /\ req[h].pc = "done" /\ "db_write" \in req[h].effects
        /\ endpoints[req[h].uid].redis_pub_sub = req[h].fields.redis_pub_sub
        /\ endpoints[req[h].uid].redis_pub_sub # req[h].old_pub_sub
        /\ ChannelName(endpoints[req[h].uid].redis_pub_sub) = ChannelName(req[h].old_pub_sub)
        /\ endpoints[req[h].uid].verkey = "V"

\* the step in which the rotation of handler h ends without a write: no
\* broker passed the probe, or the write to the database failed
RotationFails(h) ==
    /\ req[h].pc \in {"rotate", "rebind"} /\ req'[h].pc = "done"
    /\ "db_write" \notin req'[h].effects

\* C33 as stated: when the rotation after a BrokerConnectionError fails, no
\* exception leaves the handler, the persisted address of the endpoint stays
\* as it was, and the request ends with the fallback decision (410 without an
\* fcm_device_id, the FCM attempt with one).
C33_FailedRotationMuted ==
    [][\A h \in Handlers :
          RotationFails(h)
          => /\ endpoints' = endpoints
             /\ req'[h].status # 500
             /\ req[h].fields.fcm_device_id = None => req'[h].status = 410
      ]_vars

\* the write of a rotation failed for an endpoint without fcm_device_id: the
\* request ended with 410 and the row still has the unreachable address
C33_Witness ==
    \E h \in Handlers :
        /\ req[h].pc = "done" /\ req[h].raised /\ req[h].status = 410
        /\ "probe" \in req[h].effects /\ "db_write" \notin req[h].effects
        /\ req[h].redis_server # None
        /\ hist.ensured = <<>>
        /\ endpoints[req[h].uid].redis_pub_sub = Addr("unreachable", "X")
        /\ endpoints[req[h].uid].redis_pub_sub = req[h].old_pub_sub

\* the outcomes of calls that tear the channel down
TornOutcomes == {"read:error", "read:close"}

\* C35: a channel has a subscription only while it has a connection; publish
\* and close never create a subscription; after a teardown (a transport error
\* in a read, or the close frame read) both are cleared; and a call on a
\* channel without an open connection runs on a connection it has just
\* created, never on the released one.
C35_SubscribedImpliesConnected ==
    /\ [](\A h \in Handlers :
               /\ chan[h].channel # NoTopic => chan[h].aio_redis
               /\ chan[h].last \in TornOutcomes
                  => ~chan[h].aio_redis /\ chan[h].channel = NoTopic
               /\ chan[h].used # "released")
    /\ [][\A h \in Handlers :
            /\ (chan'[h] # chan[h] /\ chan'[h].last \in {"write:ok", "write:error",
                                                        "close:ok", "close:error"})
               => chan'[h].channel \in {chan[h].channel, NoTopic}
            /\ (chan'[h].last # chan[h].last /\ (~chan[h].aio_redis \/ chan[h].closed))
               => chan'[h].used \in {"new", "none"}
       ]_vars

\* a channel that was torn down has read again: it is subscribed on a
\* connection created by that read
C35_Witness ==
    \E h \in Handlers :
        /\ chan[h].torn /\ chan[h].last = "read:timeout" /\ chan[h].used = "new"
        /\ chan[h].aio_redis /\ ~chan[h].closed
        /\ chan[h].channel = Topic(ChannelAddress)
====
